---- MODULE Spec2Model ----
(***************************************************************************)
(* Order execution and risk adjustment of the trading bot: the long-open   *)
(* (buy), short-open (sell) and close functions, the position-mode cache,  *)
(* and the two orchestrators (run / TradingExecutor) that sequence a batch *)
(* of decisions over them with a margin ledger.                            *)
(*                                                                         *)
(* Numbers.  Amounts are integers counted in units of 10^-5 of the base    *)
(* asset, prices in units of 0.1 USDT, so amount * price is counted in     *)
(* 10^-6 USDT; cash and margins use that unit too.  Arithmetic is exact    *)
(* (the rounding error of IEEE doubles is not modelled).  A ledger value   *)
(* is a record [nan, v] so that the NaN the executor computes from a       *)
(* missing price is a value of its own.                                    *)
(***************************************************************************)
EXTENDS Integers, Sequences, FiniteSets, TLC

\* ------------------------------------------------------------------ bounds
BatchLen == 2          \* decisions in one orchestration run
NumBaseUrls == 3       \* candidate endpoints of getBinanceBaseUrl().split(",")
MaxOtherCalls == 1     \* calls of getPositionMode by a concurrent caller

\* --------------------------------------------------------------- constants
FineDecimals == 5      \* amounts are counted in 10^-FineDecimals
MaxAttempts == 3
MaxSlTpAttempts == 3       \* order submission attempts
DefaultQuantity == 3   \* quantity decimals of the default rule
DefaultMinNotional == 100
MAX_SAFE_LEVERAGE == 30
MAX_POSITION_MULTIPLIER == 20
MinLeverage == 1
PriceScale == 10       \* prices are counted in 1/PriceScale USDT

RECURSIVE Pow10(_)
Pow10(n) == IF n <= 0 THEN 1 ELSE 10 * Pow10(n - 1)

\* USDT -> the unit of amount * price
Usd(x) == x * PriceScale * Pow10(FineDecimals)

\* ---------------------------------------------------------------- symbols
\* symbol.replace("/", "")
binanceSymbol(symbol) ==
    CASE symbol = "BTC/USDT"  -> "BTCUSDT"
      [] symbol = "ETH/USDT"  -> "ETHUSDT"
      [] symbol = "BNB/USDT"  -> "BNBUSDT"
      [] symbol = "SOL/USDT"  -> "SOLUSDT"
      [] symbol = "ADA/USDT"  -> "ADAUSDT"
      [] symbol = "DOGE/USDT" -> "DOGEUSDT"
      [] symbol = "XRP/USDT"  -> "XRPUSDT"
      [] OTHER                -> symbol

\* symbol.includes("/")
hasSlash(symbol) ==
    symbol \in {"BTC/USDT", "ETH/USDT", "BNB/USDT", "SOL/USDT",
                "ADA/USDT", "DOGE/USDT", "XRP/USDT"}

\* `${decision.symbol}/USDT`
tradingSymbol(coin) ==
    CASE coin = "BTC"  -> "BTC/USDT"
      [] coin = "ETH"  -> "ETH/USDT"
      [] coin = "BNB"  -> "BNB/USDT"
      [] coin = "SOL"  -> "SOL/USDT"
      [] coin = "DOGE" -> "DOGE/USDT"
      [] coin = "XRP"  -> "XRP/USDT"
      [] OTHER         -> coin

ListedSymbols ==
    {"BTCUSDT", "ETHUSDT", "BNBUSDT", "SOLUSDT", "ADAUSDT", "DOGEUSDT"}

\* SYMBOL_PRECISION of buy.ts (quantity decimals)
BuyQuantity ==
    [s \in ListedSymbols |->
        CASE s = "BTCUSDT" -> 3 [] s = "ETHUSDT" -> 2 [] s = "BNBUSDT" -> 2
          [] s = "SOLUSDT" -> 2 [] s = "ADAUSDT" -> 0 [] s = "DOGEUSDT" -> 0]

\* SYMBOL_PRECISION of the short-open and close files (quantity decimals)
SellQuantity ==
    [s \in ListedSymbols |->
        CASE s = "BTCUSDT" -> 3 [] s = "ETHUSDT" -> 2 [] s = "BNBUSDT" -> 1
          [] s = "SOLUSDT" -> 2 [] s = "ADAUSDT" -> 0 [] s = "DOGEUSDT" -> 0]

\* SYMBOL_PRECISION[..].minNotional, the same in every table
MinNotionalOf ==
    [s \in ListedSymbols |-> 100]

\* SYMBOL_PRECISION[symbol] || { quantity: 3, price: 2, minNotional: 100 }
buyConfig(bs) ==
    IF bs \in ListedSymbols
    THEN [quantity |-> BuyQuantity[bs], minNotional |-> MinNotionalOf[bs]]
    ELSE [quantity |-> DefaultQuantity, minNotional |-> DefaultMinNotional]

sellConfig(bs) ==
    IF bs \in ListedSymbols
    THEN [quantity |-> SellQuantity[bs], minNotional |-> MinNotionalOf[bs]]
    ELSE [quantity |-> DefaultQuantity, minNotional |-> DefaultMinNotional]

\* 10^-d counted in amount units
UnitOf(d) == Pow10(FineDecimals - d)

\* a minimal amount of ten units of the rule
buyMinAmountTenUnits(bs) ==
    10 * (IF bs \in ListedSymbols /\ BuyQuantity[bs] # 0
          THEN UnitOf(BuyQuantity[bs]) ELSE UnitOf(DefaultQuantity))

\* Math.pow(10, -(SYMBOL_PRECISION[bs]?.quantity || 3)): 0 decimals is falsy
buyMinAmount(bs) ==
    IF bs \in ListedSymbols /\ BuyQuantity[bs] # 0
    THEN UnitOf(BuyQuantity[bs]) ELSE UnitOf(DefaultQuantity)

sellMinAmount(bs) ==
    IF bs \in ListedSymbols /\ SellQuantity[bs] # 0
    THEN UnitOf(SellQuantity[bs]) ELSE UnitOf(DefaultQuantity)

\* ------------------------------------------------------------ quantization
\* The multiples m of 10^-d, below 2 units of the base asset, for which the
\* double m / 10^d times the factor 10^d is a double just below m, so that
\* Math.floor(amount * factor) gives m - 1 (0.29 * 100 is 28.999999999999996).
\* No multiple of 10^-d with d = 0 or 1 in that range behaves so.
LossyMultiples(d) ==
    CASE d = 2 -> {29, 57, 58, 113, 114, 115, 116}
      [] d = 3 -> {1001 + 2 * k : k \in 0..11}
      [] OTHER -> {}

\* Math.floor(amount * factor) for an amount of m whole units and a rest
floorOfProduct(m, rest, d) ==
    IF rest = 0 /\ m \in LossyMultiples(d) THEN m - 1 ELSE m

\* Math.floor(amount * factor) / factor
FloorTo(amount, d) ==
    floorOfProduct(amount \div UnitOf(d), amount % UnitOf(d), d) * UnitOf(d)

\* buy.ts adjustPrecision: truncation only
adjustPrecisionBuy(amount, bs) == FloorTo(amount, buyConfig(bs).quantity)

\* close / short adjustPrecision: truncation, then the raise to one unit
adjustPrecisionSell(amount, bs) ==
    LET d == sellConfig(bs).quantity
        adjusted == FloorTo(amount, d)
    IN  IF adjusted = 0 /\ amount > 0 THEN UnitOf(d) ELSE adjusted

\* checkMinNotional(...).valid
checkMinNotional(amount, bs, price) ==
    ~ (amount * price < Usd(buyConfig(bs).minNotional))

\* smartAdjustOrderForMinNotional that leaves the amount as it is
smartAdjustUnchanged(amount, symbol, currentPrice) == amount

\* smartAdjustOrderForMinNotional(...).adjustedAmount
smartAdjustOrderForMinNotional(amount, symbol, currentPrice) ==
    LET bs     == binanceSymbol(symbol)
        config == buyConfig(bs)
        \* adjustPrecision(config.minNotional / currentPrice)
        adjustedRequiredAmount ==
            floorOfProduct(
                Usd(config.minNotional) \div (currentPrice * UnitOf(config.quantity)),
                Usd(config.minNotional) % (currentPrice * UnitOf(config.quantity)),
                config.quantity) * UnitOf(config.quantity)
        minIncrement == UnitOf(config.quantity)
    IN  IF amount * currentPrice >= Usd(config.minNotional) THEN amount
        ELSE IF adjustedRequiredAmount * currentPrice < Usd(config.minNotional)
             THEN adjustedRequiredAmount + minIncrement
             ELSE adjustedRequiredAmount

\* Math.ceil(a / b) for a >= 0, b > 0
CeilDiv(a, b) == (a + b - 1) \div b

Min(a, b) == IF a < b THEN a ELSE b

\* the result of buy()'s amount adjustment: status "ok" (the order may be
\* built), "fail" (early return) or "throw" (an exception for the outer catch)
Adjusted(status, amount, leverage, error) ==
    [status |-> status, amount |-> amount, leverage |-> leverage, error |-> error]

\* buy(): the final safety checks (lines 334-345)
finalChecks(amount, leverage, bs, currentPrice, minAmount) ==
    IF amount <= 0 \/ amount < minAmount
    THEN Adjusted("fail", amount, leverage, "Invalid adjusted amount")
    ELSE IF ~checkMinNotional(amount, bs, currentPrice)
    THEN Adjusted("fail", amount, leverage, "Order value too small")
    ELSE Adjusted("ok", amount, leverage, "none")

\* Math.ceil(minPositionValue / currentPositionValue); x / 0 is Infinity
suggestedMultiplier(amount, minAmount, currentPrice) ==
    IF amount * currentPrice = 0 THEN MAX_POSITION_MULTIPLIER + 1
    ELSE CeilDiv(minAmount * currentPrice, amount * currentPrice)

\* buy(): the small order raised to minAmount, or refused (lines 308-331)
escalated(amount, mult, suggested, symbol, bs, currentPrice, minAmount) ==
    IF suggested <= MAX_SAFE_LEVERAGE /\ mult <= MAX_POSITION_MULTIPLIER
    THEN finalChecks(IF checkMinNotional(minAmount, bs, currentPrice) THEN minAmount
                     ELSE smartAdjustOrderForMinNotional(minAmount, symbol, currentPrice),
                     suggested, bs, currentPrice, minAmount)
    ELSE Adjusted("fail", amount, suggested, "Amount too small")

\* a suggestion without the cap at 30
escalateUncapped(amount, mult, leverage, symbol, bs, currentPrice, minAmount) ==
    escalated(amount, mult, leverage * mult, symbol, bs, currentPrice, minAmount)

\* Math.min(effectiveLeverage * suggestedMultiplier, 30)
escalate(amount, mult, leverage, symbol, bs, currentPrice, minAmount) ==
    escalated(amount, mult, Min(leverage * mult, MAX_SAFE_LEVERAGE),
              symbol, bs, currentPrice, minAmount)

\* buy(): the second step, small orders (lines 294-332)
smallOrder(amount, leverage, symbol, bs, currentPrice, minAmount) ==
    IF amount = 0 \/ amount < minAmount
    THEN escalate(amount, suggestedMultiplier(amount, minAmount, currentPrice),
                  leverage, symbol, bs, currentPrice, minAmount)
    ELSE finalChecks(amount, leverage, bs, currentPrice, minAmount)

\* buy(): the notional re-validated after the adjustment (lines 276-291);
\* SYMBOL_PRECISION[binanceSymbol].minNotional has no default here
revalidated(amount, leverage, symbol, bs, currentPrice, minAmount) ==
    IF bs \notin ListedSymbols
    THEN Adjusted("throw", amount, leverage, "TypeError")
    ELSE IF amount * currentPrice < Usd(MinNotionalOf[bs])
    THEN Adjusted("fail", amount, leverage, "Cannot meet minimum notional")
    ELSE smallOrder(amount, leverage, symbol, bs, currentPrice, minAmount)

\* buy(): the first step, the minimum notional (lines 264-292)
minNotionalStep(amount, leverage, symbol, bs, currentPrice, minAmount) ==
    IF checkMinNotional(amount, bs, currentPrice)
    THEN smallOrder(amount, leverage, symbol, bs, currentPrice, minAmount)
    ELSE revalidated(smartAdjustOrderForMinNotional(amount, symbol, currentPrice),
                     leverage, symbol, bs, currentPrice, minAmount)

\* buy(): lines 259-345, from the first quantization to the final checks
adjustOrder(amount, symbol, currentPrice, leverage) ==
    minNotionalStep(adjustPrecisionBuy(amount, binanceSymbol(symbol)), leverage,
                    symbol, binanceSymbol(symbol), currentPrice,
                    buyMinAmount(binanceSymbol(symbol)))

\* close: smartAdjustSellAmount(amount, symbol, positionSize).adjustedAmount
smartAdjustSellAmount(amount, symbol, positionSize) ==
    LET bs        == binanceSymbol(symbol)
        minAmount == UnitOf(sellConfig(bs).quantity)
        a0        == adjustPrecisionSell(amount, bs)
        whole     == adjustPrecisionSell(positionSize, bs)
    IN  IF (a0 = 0 \/ a0 < minAmount) /\ positionSize >= minAmount THEN minAmount
        ELSE IF (a0 = 0 \/ a0 < minAmount) /\ positionSize > 0
             THEN (IF whole = 0 THEN positionSize ELSE whole)
        ELSE IF a0 > positionSize THEN adjustPrecisionSell(positionSize, bs)
        ELSE a0

\* short-open: quantization and the final validation (lines 96-106)
shortAdjust(amount, symbol) ==
    LET bs == binanceSymbol(symbol)
        a0 == adjustPrecisionSell(amount, bs)
    IN  IF a0 <= 0 \/ a0 < sellMinAmount(bs)
        THEN [status |-> "fail", amount |-> a0, error |-> "Amount too small"]
        ELSE [status |-> "ok", amount |-> a0, error |-> "none"]

\* close: from the sell amount to the final sell amount (lines 216-238)
closeAdjust(sellAmount, symbol, positionSize) ==
    LET bs == binanceSymbol(symbol)
        a0 == adjustPrecisionSell(sellAmount, bs)
    IN  IF sellAmount <= 0
        THEN [status |-> "fail", amount |-> 0, error |-> "Sell amount must be greater than 0"]
        ELSE IF a0 <= 0 \/ a0 < sellMinAmount(bs)
        THEN [status |-> "fail", amount |-> a0, error |-> "Amount too small"]
        ELSE IF positionSize > 0 /\ a0 > positionSize
        THEN [status |-> "ok", amount |-> adjustPrecisionSell(positionSize, bs),
              error |-> "none"]
        ELSE [status |-> "ok", amount |-> a0, error |-> "none"]

\* ------------------------------------------------------------ ledger values
Num(x) == [nan |-> FALSE, v |-> x]
NaN == [nan |-> TRUE, v |-> 0]

\* a - b of IEEE doubles, as far as NaN goes
Sub(a, b) == IF a.nan \/ b.nan THEN NaN ELSE Num(a.v - b.v)
Add(a, b) == IF a.nan \/ b.nan THEN NaN ELSE Num(a.v + b.v)
\* a > b: false when either side is NaN
Gt(a, b) == ~a.nan /\ ~b.nan /\ a.v > b.v

\* (amount * pricing) / leverage; a null price counts as 0 (run), an
\* undefined price gives NaN (TradingExecutor)
requiredMargin(orch, d) ==
    IF d.hasPricing THEN Num((d.amount * d.pricing) \div d.leverage)
    ELSE IF orch = "run" THEN Num(0) ELSE NaN

\* the deduction made whatever the buy returned
commitMarginAlways(cash, margin, success) == Sub(cash, margin)

\* remainingAvailableCash after the buy result is known
commitMargin(cash, margin, success) ==
    IF success THEN Sub(cash, margin) ELSE cash

\* an admission test that lets every margin through
marginAlwaysSufficient(margin, cash) == FALSE

\* the margin admission test: requiredMargin > remainingAvailableCash
marginInsufficient(margin, cash) == Gt(margin, cash)

\* ------------------------------------------------------------ position mode
Modes == {"ONE_WAY", "DUAL_SIDE"}

\* a cache that is never consulted
cacheHitNever(cache) == FALSE

\* if (positionModeCache) return positionModeCache
cacheHit(cache) == cache # "null"

\* dualSidePosition ? "DUAL_SIDE" : "ONE_WAY", answered by the exchange
modeOf(actual) == IF actual = "DUAL_SIDE" THEN "DUAL_SIDE" ELSE "ONE_WAY"

\* a fallback that leaves the cache as it found it
fallbackKeepsCache(cache) == cache

\* positionModeCache = "ONE_WAY" on the paths where no query answered
fallbackCache(cache) == "ONE_WAY"

\* order parameters built from a mode, per call site
buildParams(kind, mode, positionSide) ==
    IF mode = "DUAL_SIDE"
    THEN [positionSide |-> (CASE kind = "buy" -> "LONG"
                              [] kind = "short" -> "SHORT"
                              [] OTHER -> positionSide),
          reduceOnly |-> FALSE]
    ELSE [positionSide |-> "none", reduceOnly |-> (kind = "close")]

\* the mismatch repair of the close and short-open loops (attempt 1 only):
\* parameters adjusted in place from the re-queried mode
repairParams(kind, params, mode, positionSide) ==
    IF kind = "close"
    THEN (IF mode = "DUAL_SIDE"
          THEN [positionSide |-> positionSide, reduceOnly |-> FALSE]
          ELSE [positionSide |-> "none", reduceOnly |-> TRUE])
    ELSE (IF mode = "DUAL_SIDE"
          THEN [params EXCEPT !.positionSide = "SHORT"]
          ELSE [params EXCEPT !.positionSide = "none"])

\* which call sites repair a position-side mismatch, and on which attempt
repairsMismatch(kind, attempt) == kind \in {"close", "short"} /\ attempt = 1

\* buy(): the precision repair, attempt 1 only
repairsPrecision(kind, attempt) == kind = "buy" /\ attempt = 1

\* adjustPrecision(adjustedAmount + 10^-(quantity || 3))
precisionRetryAmount(qty, bs) == adjustPrecisionBuy(qty + buyMinAmount(bs), bs)

\* the exchange accepts order parameters only if they fit the account's mode
paramsFit(params, actual) ==
    IF actual = "DUAL_SIDE"
    THEN params.positionSide # "none" /\ ~params.reduceOnly
    ELSE params.positionSide = "none"

\* the whole body of each trade function sits in try/catch
hasOuterCatch(kind) == kind \in {"buy", "short", "close"}

\* ------------------------------------------------------------------ inputs
Orchestrators == {"run", "executor", "direct"}

\* availableCash reported by the account service
CashChoices == {Usd(150)}

\* mark prices the exchange may report (0.1 USDT)
MarkPrices(bs) ==
    CASE bs = "BTCUSDT" -> {400000, 500000}
      [] bs = "ETHUSDT" -> {30000}
      [] bs = "BNBUSDT" -> {5000}
      [] OTHER          -> {10}

\* fallbackPrices[binanceSymbol] || 1
fallbackPrice(bs) ==
    CASE bs = "BTCUSDT"  -> 500000
      [] bs = "ETHUSDT"  -> 30000
      [] bs = "BNBUSDT"  -> 5000
      [] bs = "SOLUSDT"  -> 1000
      [] bs = "ADAUSDT"  -> 5
      [] bs = "DOGEUSDT" -> 1
      [] OTHER           -> 10

\* positions the exchange may hold for the symbol of a close: side and size
HeldChoices(bs) ==
    CASE bs = "BTCUSDT" -> {[side |-> "long", size |-> 0],
                            [side |-> "long", size |-> 50],
                            [side |-> "long", size |-> 300],
                            [side |-> "short", size |-> 200]}
      [] bs = "ETHUSDT" -> {[side |-> "long", size |-> 29000]}
      [] bs = "BNBUSDT" -> {[side |-> "long", size |-> 1000]}
      [] OTHER          -> {[side |-> "long", size |-> 0]}

Decision(op, coin, ha, a, hl, l, hp, p, pct) ==
    [op |-> op, coin |-> coin, hasAmount |-> ha, amount |-> a,
     hasLeverage |-> hl, leverage |-> l, hasPricing |-> hp, pricing |-> p,
     percentage |-> pct]

\* decisions of a batch (the AI output mapped to the legacy format)
Decisions ==
    { Decision("Buy", "BTC", TRUE, 200, TRUE, l, hp, 500000, 100) :
        l \in {1, 10}, hp \in BOOLEAN }
    \cup { Decision("Buy", "BTC", TRUE, 10, TRUE, 10, hp, 500000, 100) :
             hp \in BOOLEAN }
    \cup { Decision("Buy", "BTC", TRUE, 0, TRUE, 10, FALSE, 0, 100),
           Decision("Buy", "XRP", TRUE, 10, TRUE, 10, FALSE, 0, 100),
           Decision("Buy", "BTC", FALSE, 0, TRUE, 10, FALSE, 0, 100),
           Decision("Buy", "BTC", TRUE, 200, TRUE, 40, TRUE, 500000, 100) }
    \cup { Decision("Sell", "BTC", TRUE, a, TRUE, 10, TRUE, 500000, 100) :
             a \in {10, 100} }
    \cup { Decision("Sell", "BTC", TRUE, 100, FALSE, 0, TRUE, 500000, 100),
           Decision("Sell", "BTC", TRUE, 100, TRUE, 40, TRUE, 500000, 100),
           Decision("Sell", "BTC", TRUE, 0, TRUE, 10, TRUE, 500000, 100) }
    \cup { Decision("Close", c, FALSE, 0, FALSE, 0, FALSE, 0, pct) :
             c \in {"BTC", "BNB"}, pct \in {50, 100} }
    \cup { Decision("Hold", "BTC", FALSE, 0, FALSE, 0, FALSE, 0, 100) }

Call(kind, symbol, ha, a, l, hp, p, pct) ==
    [kind |-> kind, symbol |-> symbol, hasAmount |-> ha, amount |-> a,
     leverage |-> l, hasPrice |-> hp, price |-> p, percentage |-> pct]

\* calls a library user makes directly
DirectCalls ==
    { Call("buy", s, TRUE, 10, 10, hp, 500000, 100) :
        s \in {"BTC/USDT", "BTCUSDT"}, hp \in BOOLEAN }
    \cup { Call("buy", "ETH/USDT", TRUE, 29500, 10, TRUE, 30000, 100),
           Call("close", "ETH/USDT", FALSE, 0, 0, FALSE, 0, 100) }
    \cup { Call("short", "BTC/USDT", TRUE, 100, l, TRUE, 500000, 100) : l \in {10, 40} }
    \cup { Call("close", "BTC/USDT", ha, 100, 0, FALSE, 0, pct) :
             ha \in BOOLEAN, pct \in {100, 150} }

\* the arguments each orchestrator passes for a decision
callOf(orch, d) ==
    CASE d.op = "Buy" ->
           Call("buy", tradingSymbol(d.coin), TRUE, d.amount, d.leverage, FALSE, 0, 100)
      [] d.op = "Sell" ->
           Call("short", tradingSymbol(d.coin), TRUE, d.amount, d.leverage,
                orch = "run" /\ d.hasPricing /\ d.pricing # 0,
                IF orch = "run" THEN d.pricing ELSE 0, 100)
      [] OTHER ->
           Call("close", tradingSymbol(d.coin), FALSE, 0, 0, FALSE, 0,
                IF orch = "run" THEN d.percentage ELSE 100)

\* the orchestrator's own checks before the call: "missing", "call" or "hold"
precheck(orch, d) ==
    CASE d.op = "Buy"   -> IF ~d.hasAmount \/ ~d.hasLeverage THEN "missing" ELSE "call"
      [] d.op = "Sell"  -> IF ~d.hasAmount \/ ~d.hasLeverage
                              \/ (orch = "run" /\ ~d.hasPricing)
                           THEN "missing" ELSE "call"
      [] d.op = "Close" -> "call"
      [] OTHER          -> "hold"

\* trading records appended for one decision, by the way it ended
recordsFor(orch, op, how) ==
    IF orch = "direct" THEN 0
    ELSE IF orch = "run"
    THEN (IF op = "Close" /\ how = "called" THEN 0 ELSE 1)
    ELSE (IF how \in {"missing", "risk", "margin"} THEN 2 ELSE 1)

\* parameter validation at the head of each trade function: "" or the error
validate(c) ==
    IF ~hasSlash(c.symbol) THEN "Invalid symbol format"
    ELSE CASE c.kind = "buy" ->
                IF c.amount <= 0 THEN "Amount must be greater than 0"
                ELSE IF c.leverage < MinLeverage \/ c.leverage > MAX_SAFE_LEVERAGE
                     THEN "Leverage must be between 1 and 30"
                     ELSE ""
           [] c.kind = "short" ->
                IF c.amount <= 0 THEN "Amount must be greater than 0" ELSE ""
           [] OTHER ->
                IF c.percentage <= 0 \/ c.percentage > 100
                THEN "Percentage must be between 0 and 100" ELSE ""

\* ------------------------------------------------------------------- state
VARIABLES
    orch,                    \* which orchestrator runs the batch
    actualMode,              \* the account's position mode at the exchange
    idx,                     \* decisions of the batch already processed
    pc,                      \* position of the trade function in flight
    fn,                      \* locals of the trade function in flight
    cur,                     \* the decision in flight: op and required margin
    positionModeCache,       \* module variable of buy.ts
    gpm,                     \* getPositionMode invocations, per caller
    otherCalls,              \* invocations made by the concurrent caller
    remainingAvailableCash,  \* the margin ledger of the run
    initialCash,             \* availableCash at the start of the run
    committed,               \* sum of the margins of the successful buys
    recorded,                \* trading records appended, per decision
    results,                 \* how each decision ended
    lastOrder,               \* the latest newOrder call of the call in flight
    lastFresh,               \* the mode obtained by the latest mismatch repair
    probe                    \* a unit exercised on its own: inputs and result

vars == <<orch, actualMode, idx, pc, fn, cur, positionModeCache, gpm, otherCalls,
          remainingAvailableCash, initialCash, committed, recorded, results,
          lastOrder, lastFresh, probe>>

Callers == {"main", "other"}

NoOrder == [kind |-> "none", symbol |-> "none", qty |-> 0, price |-> 0,
            params |-> [positionSide |-> "none", reduceOnly |-> FALSE],
            side |-> "none", attempt |-> 0, outcome |-> "none", after |-> "none",
            placed |-> 0, accepted |-> 0]

NoCall == [call |-> Call("none", "none", FALSE, 0, 0, FALSE, 0, 100),
           held |-> [side |-> "long", size |-> 0],
           currentPrice |-> 0, raw |-> 0, quantized |-> -1, qty |-> 0, effLeverage |-> 0,
           params |-> [positionSide |-> "none", reduceOnly |-> FALSE],
           positionSide |-> "LONG", positionSize |-> 0, mode |-> "none",
           attempt |-> 0, lastError |-> "none", success |-> FALSE,
           error |-> "none", requeries |-> 0, touched |-> FALSE,
           levFailed |-> FALSE, slAttempt |-> 0, slCalls |-> 0,
           slResult |-> "none"]

NoError == [kind |-> "none", at |-> 0]

NoProbe == [unit |-> "none", pc |-> "none",
            next |-> 0, contacted |-> <<>>, failed |-> {}, aborted |-> FALSE,
            lastError |-> NoError, from |-> 0, error |-> "none",
            symbol |-> "none", amount |-> 0, leverage |-> 0, price |-> 0,
            res |-> [status |-> "none", amount |-> 0, leverage |-> 0,
                     error |-> "none"],
            exact |-> TRUE, closed |-> 0]

GpmIdle == [pc |-> "idle", queries |-> 0, fromNull |-> FALSE, ret |-> "none"]

Init ==
    /\ orch \in Orchestrators
    /\ actualMode \in Modes
    /\ idx = 0
    /\ pc = "idle"
    /\ fn = NoCall
    /\ cur = [op |-> "none", margin |-> Num(0), at |-> 0]
    /\ positionModeCache = "null"
    /\ gpm = [c \in Callers |-> GpmIdle]
    /\ otherCalls = 0
    /\ initialCash \in {Num(c) : c \in CashChoices}
    /\ remainingAvailableCash = initialCash
    /\ committed = Num(0)
    /\ recorded = [i \in 1..BatchLen |-> 0]
    /\ results = [i \in 1..BatchLen |-> "none"]
    /\ lastOrder = NoOrder
    /\ lastFresh = [mode |-> "none", at |-> 0]
    /\ probe = NoProbe

\* ------------------------------------------------- ends of a trade function
\* return { success: false, error } before or inside the try block
ReturnFailure(f, err) ==
    [f EXCEPT !.success = FALSE, !.error = err]

\* an exception raised inside the try block of a trade function
Raise(f, err) ==
    IF hasOuterCatch(f.call.kind)
    THEN /\ fn' = ReturnFailure(f, err)
         /\ pc' = "ret"
    ELSE /\ fn' = f
         /\ pc' = "thrown"

\* ------------------------------------------------------------ orchestrators
\* a decision the orchestrator settles without calling a trade function
Settle(how, res, op) ==
    /\ idx' = idx + 1
    /\ recorded' = [recorded EXCEPT ![idx + 1] = recordsFor(orch, op, how)]
    /\ results' = [results EXCEPT ![idx + 1] = res]
    /\ UNCHANGED <<pc, fn, cur, remainingAvailableCash, committed>>

\* before a short the orchestrators fetch the positions, for their log only
looksUpPosition(o, op) == o # "direct" /\ op = "Sell"

\* the trade function is entered: validation runs up to the first await
Enter(c, op, margin) ==
    /\ cur' = [op |-> op, margin |-> margin, at |-> idx + 1]
    /\ \E h \in HeldChoices(binanceSymbol(c.symbol)) :
         LET f == [NoCall EXCEPT !.call = c,
                                 !.held = IF c.kind = "close" THEN h ELSE NoCall.held,
                                 !.touched = looksUpPosition(orch, op)]
         IN  IF validate(c) # ""
             THEN fn' = ReturnFailure(f, validate(c)) /\ pc' = "ret"
             ELSE fn' = f /\ pc' = "sync"
    /\ UNCHANGED <<idx, recorded, results, remainingAvailableCash, committed>>

\* a loop that takes up the next decision whatever the previous one is doing
dispatchAnyTime(p) == TRUE

\* for (const decision of decisions) { await ... }: the next decision is
\* taken up once the previous iteration has run to its end
mayDispatch(p) == p = "idle"

\* one iteration of the decision loop, up to the call of the trade function
Dispatch ==
    /\ mayDispatch(pc)
    /\ idx < BatchLen
    /\ orch # "direct"
    /\ \E d \in Decisions :
         LET margin == requiredMargin(orch, d) IN
         CASE precheck(orch, d) = "missing" -> Settle("missing", "skipped", d.op)
           [] precheck(orch, d) = "hold"    -> Settle("hold", "hold", d.op)
           [] d.op = "Buy" /\ precheck(orch, d) = "call" ->
                \* checkBuyRisk is an external collaborator: either answer
                \/ Settle("risk", "blocked", d.op)
                \/ IF marginInsufficient(margin, remainingAvailableCash)
                   THEN Settle("margin", "insufficient", d.op)
                   ELSE Enter(callOf(orch, d), d.op, margin)
           [] OTHER -> Enter(callOf(orch, d), d.op, Num(0))
    /\ UNCHANGED <<orch, actualMode, positionModeCache, gpm, otherCalls,
                   initialCash, lastOrder, lastFresh, probe>>

\* a library user calls a trade function directly
DirectCall ==
    /\ pc = "idle"
    /\ idx < BatchLen
    /\ orch = "direct"
    /\ \E c \in DirectCalls : Enter(c, "Direct", Num(0))
    /\ UNCHANGED <<orch, actualMode, positionModeCache, gpm, otherCalls,
                   initialCash, lastOrder, lastFresh, probe>>

\* the trade function has returned: ledger update and trading record
Return ==
    /\ pc = "ret"
    /\ pc' = "idle"
    /\ idx' = idx + 1
    /\ remainingAvailableCash' =
         IF cur.op = "Buy"
         THEN commitMargin(remainingAvailableCash, cur.margin, fn.success)
         ELSE remainingAvailableCash
    /\ committed' = IF cur.op = "Buy" /\ fn.success
                    THEN Add(committed, cur.margin) ELSE committed
    /\ recorded' = [recorded EXCEPT ![idx + 1] = recordsFor(orch, cur.op, "called")]
    /\ results' = [results EXCEPT ![idx + 1] =
                     IF fn.success THEN "ok"
                     ELSE IF lastOrder.attempt = MaxAttempts
                     THEN "fail3" ELSE "failed"]
    /\ fn' = NoCall
    /\ cur' = [op |-> "none", margin |-> Num(0), at |-> 0]
    /\ lastOrder' = NoOrder
    /\ gpm' = [gpm EXCEPT !["main"] = GpmIdle]
    /\ UNCHANGED <<orch, actualMode, positionModeCache, otherCalls,
                   initialCash, lastFresh, probe>>

\* ---------------------------------------------------------- trade functions
Quiet == UNCHANGED <<orch, actualMode, idx, cur, remainingAvailableCash,
                     initialCash, committed, recorded, results>>

\* buy(): the outcome r of the amount adjustment taken up
BuyAdjustedTo(f, r) ==
    CASE r.status = "ok"   -> fn' = f /\ pc' = "leverage"
      [] r.status = "fail" -> fn' = ReturnFailure(f, r.error) /\ pc' = "ret"
      [] OTHER             -> Raise(f, r.error)

\* the locals of buy() after the amount adjustment r
withAdjusted(f, price, r) ==
    [f EXCEPT !.currentPrice = price, !.raw = f.call.amount,
              !.quantized = adjustPrecisionBuy(f.call.amount, binanceSymbol(f.call.symbol)),
              !.qty = r.amount, !.effLeverage = r.leverage]

\* buy(): the amount adjustment once the price is known
BuyAdjustedWith(f, price, r) == BuyAdjustedTo(withAdjusted(f, price, r), r)

BuyAdjusted(f, price) ==
    BuyAdjustedWith(f, price,
                    adjustOrder(f.call.amount, f.call.symbol, price, f.call.leverage))

\* short-open: the amount adjustment
ShortAdjusted(f) ==
    LET r  == shortAdjust(f.call.amount, f.call.symbol)
        f1 == [f EXCEPT !.raw = f.call.amount, !.quantized = r.amount,
                        !.qty = r.amount, !.positionSide = "SHORT"]
    IN  IF r.status = "ok"
        THEN fn' = f1 /\ pc' = "modecall"
        ELSE fn' = ReturnFailure(f1, r.error) /\ pc' = "ret"

\* close: from the sell amount to the order quantity
CloseAdjusted(f, raw, sellAmount, quantized) ==
    LET r  == closeAdjust(sellAmount, f.call.symbol, f.positionSize)
        f1 == [f EXCEPT !.raw = raw, !.quantized = quantized,
                        !.qty = r.amount]
    IN  IF r.status = "ok"
        THEN fn' = f1 /\ pc' = "modecall"
        ELSE fn' = ReturnFailure(f1, r.error) /\ pc' = "ret"

\* await ensureTimeSync(); await getBinanceInstance(); then the code up to
\* the next await
Synced(f) ==
    \/ Raise(f, "time sync failed")
    \/ CASE f.call.kind = "buy" ->
              IF f.call.hasPrice /\ f.call.price # 0
              THEN BuyAdjusted(f, f.call.price)
              ELSE fn' = f /\ pc' = "price"
         [] f.call.kind = "short" ->
              IF f.call.leverage # 0
              THEN fn' = f /\ pc' = "leverage"
              ELSE ShortAdjusted(f)
         [] OTHER ->
              IF f.call.hasAmount /\ f.call.amount # 0
              THEN CloseAdjusted(f, f.call.amount, f.call.amount,
                                 adjustPrecisionSell(f.call.amount,
                                                     binanceSymbol(f.call.symbol)))
              ELSE fn' = f /\ pc' = "fetch"

Sync ==
    /\ pc = "sync"
    /\ Synced([fn EXCEPT !.touched = TRUE])
    /\ Quiet
    /\ UNCHANGED <<positionModeCache, gpm, otherCalls, lastOrder, lastFresh, probe>>

\* buy(): client.markPrice, or the fallback price when it fails
FetchPrice ==
    /\ pc = "price"
    /\ \/ \E p \in MarkPrices(binanceSymbol(fn.call.symbol)) : BuyAdjusted(fn, p)
       \/ BuyAdjusted(fn, fallbackPrice(binanceSymbol(fn.call.symbol)))
    /\ Quiet
    /\ UNCHANGED <<positionModeCache, gpm, otherCalls, lastOrder, lastFresh, probe>>

\* a leverage-set failure that ends the trade function
leverageFatalWhenFailed(failed) == failed

\* catch (leverageError) { console.warn(...) }: the failure is only logged
leverageFatal(failed) == FALSE

\* the code after the leverage-set call, up to the next await
LeverageSet(f, failed) ==
    IF leverageFatal(failed)
    THEN Raise(f, "Failed to set leverage")
    ELSE IF f.call.kind = "buy"
    THEN fn' = f /\ pc' = "modecall"
    ELSE ShortAdjusted(f)

\* the leverage-set call, which the exchange accepts or refuses
SetLeverage ==
    /\ pc = "leverage"
    /\ \E failed \in BOOLEAN :
         LeverageSet([fn EXCEPT !.levFailed = failed], failed)
    /\ Quiet
    /\ UNCHANGED <<positionModeCache, gpm, otherCalls, lastOrder, lastFresh, probe>>

\* close: fetchPositions and the sell amount taken from the percentage
FetchPositions ==
    /\ pc = "fetch"
    /\ \/ fn' = ReturnFailure(fn, "Failed to fetch position") /\ pc' = "ret"
       \/ IF fn.held.size = 0
          THEN fn' = ReturnFailure(fn, "No open position found") /\ pc' = "ret"
          ELSE LET f1 == [fn EXCEPT
                            !.positionSide = IF fn.held.side = "long"
                                             THEN "LONG" ELSE "SHORT",
                            !.positionSize = fn.held.size]
                   sellAmount == (fn.held.size * fn.call.percentage) \div 100
               IN  CloseAdjusted(f1, sellAmount,
                       smartAdjustSellAmount(sellAmount, fn.call.symbol, fn.held.size),
                       adjustPrecisionSell(sellAmount, binanceSymbol(fn.call.symbol)))
    /\ Quiet
    /\ UNCHANGED <<positionModeCache, gpm, otherCalls, lastOrder, lastFresh, probe>>

\* ----------------------------------------------------------- getPositionMode
\* getPositionMode returns mode to caller c; the trade function goes on to
\* build its order parameters
GpmReturn(c, mode, g) ==
    /\ gpm' = [gpm EXCEPT ![c] = [g EXCEPT !.pc = "idle", !.ret = mode]]
    /\ IF c = "main"
       THEN /\ fn' = [fn EXCEPT !.mode = mode, !.attempt = 1,
                        !.params = buildParams(fn.call.kind, mode, fn.positionSide)]
            /\ pc' = "submit"
            /\ UNCHANGED otherCalls
       ELSE /\ otherCalls' = otherCalls + 1
            /\ UNCHANGED <<fn, pc>>

\* a fresh invocation; fromNull notes whether the cache was empty on entry
GpmStart == [GpmIdle EXCEPT !.fromNull = (positionModeCache = "null")]

GpmEnter(c) ==
    /\ gpm[c].pc = "idle"
    /\ IF c = "main" THEN pc = "modecall" ELSE otherCalls < MaxOtherCalls
    /\ IF cacheHit(positionModeCache)
       THEN /\ GpmReturn(c, positionModeCache, GpmStart)
            /\ UNCHANGED positionModeCache
       ELSE \/ \* getBinanceInstance or ensureTimeSync throws
               /\ positionModeCache' = fallbackCache(positionModeCache)
               /\ GpmReturn(c, "ONE_WAY", GpmStart)
            \/ \* client.positionMode() is issued
               /\ gpm' = [gpm EXCEPT ![c] = [GpmStart EXCEPT !.pc = "sdk",
                                                             !.queries = 1]]
               /\ pc' = IF c = "main" THEN "modewait" ELSE pc
               /\ UNCHANGED <<fn, otherCalls, positionModeCache>>
    /\ Quiet
    /\ UNCHANGED <<lastOrder, lastFresh, probe>>

\* the answer to client.positionMode(); on failure the REST query is issued
GpmSdk(c) ==
    /\ gpm[c].pc = "sdk"
    /\ \/ /\ positionModeCache' = modeOf(actualMode)
          /\ GpmReturn(c, modeOf(actualMode), gpm[c])
       \/ /\ gpm' = [gpm EXCEPT ![c].pc = "rest", ![c].queries = 2]
          /\ UNCHANGED <<fn, pc, otherCalls, positionModeCache>>
    /\ Quiet
    /\ UNCHANGED <<lastOrder, lastFresh, probe>>

\* the answer to the REST query; on failure the default ONE_WAY is cached
GpmRest(c) ==
    /\ gpm[c].pc = "rest"
    /\ \/ /\ positionModeCache' = modeOf(actualMode)
          /\ GpmReturn(c, modeOf(actualMode), gpm[c])
       \/ /\ positionModeCache' = fallbackCache(positionModeCache)
          /\ GpmReturn(c, "ONE_WAY", gpm[c])
    /\ Quiet
    /\ UNCHANGED <<lastOrder, lastFresh, probe>>

\* ---------------------------------------------------------- order submission
Mismatch == "position side does not match"

\* answers of the exchange to newOrder: parameters that do not fit the
\* account's mode are refused with the position-side message
Answers(params) ==
    IF paramsFit(params, actualMode)
    THEN {"ok", "timeout", "Precision"}
    ELSE {Mismatch, "timeout"}

\* whether the exchange created the order: always when it answered ok, never
\* when it refused, and either way when the client only saw a timeout
Creations(out, params) ==
    IF out = "ok" THEN {1}
    ELSE IF out = "timeout" /\ paramsFit(params, actualMode) THEN {0, 1}
    ELSE {0}

\* the price an order is valued at: the price buy() computed with, else the
\* limit price, else the mark price at the time of the order
EffectivePrices(f) ==
    IF f.call.kind = "buy" THEN {f.currentPrice}
    ELSE IF f.call.hasPrice /\ f.call.price # 0 THEN {f.call.price}
    ELSE MarkPrices(binanceSymbol(f.call.symbol))

orderSide(f) ==
    CASE f.call.kind = "buy"   -> "BUY"
      [] f.call.kind = "short" -> "SELL"
      [] OTHER -> IF f.positionSide = "LONG" THEN "SELL" ELSE "BUY"

\* autoSetStopLoss: true by default in buy(), which run calls without it;
\* TradingExecutor passes false
autoSetStopLoss(o) == o # "executor"

\* if (autoSetStopLoss) after a created long-open order
attachesExits(o, kind) == kind = "buy" /\ autoSetStopLoss(o)

\* a loop that goes round once more than the code's
mayRetryOnceMore(attempt) == attempt < MaxAttempts + 1

\* if (attempt < 3) wait and go round again, else throw
mayRetry(attempt) == attempt < MaxAttempts

\* a catch block that gives up when the request timed out
retriesRefusalsOnly(out) == out \notin {"ok", "timeout"}

\* catch (orderError): every failure of newOrder, a timeout included, leads
\* to the next pass
retriesAfter(out) == out # "ok"

\* one pass of the retry loop: client.newOrder and the catch block
Submit ==
    /\ pc = "submit"
    /\ \E out \in Answers(fn.params), price \in EffectivePrices(fn) :
       \E created \in Creations(out, fn.params) :
         LET bs == binanceSymbol(fn.call.symbol)
             f1 == [fn EXCEPT !.lastError = out,
                      !.qty = IF repairsPrecision(fn.call.kind, fn.attempt)
                                 /\ out = "Precision"
                              THEN precisionRetryAmount(fn.qty, bs) ELSE fn.qty]
         IN  /\ lastOrder' = [kind |-> fn.call.kind, symbol |-> bs, qty |-> fn.qty,
                              price |-> price, params |-> fn.params,
                              side |-> orderSide(fn), attempt |-> fn.attempt,
                              outcome |-> out, after |-> fn.lastError,
                              placed |-> lastOrder.placed + 1,
                              accepted |-> lastOrder.accepted + created]
             /\ IF out = "ok"
                THEN /\ fn' = [fn EXCEPT !.success = TRUE]
                     /\ pc' = IF attachesExits(orch, fn.call.kind)
                              THEN "settle" ELSE "ret"
                ELSE IF repairsMismatch(fn.call.kind, fn.attempt) /\ out = Mismatch
                THEN fn' = f1 /\ pc' = "requery"
                ELSE IF mayRetry(fn.attempt) /\ retriesAfter(out)
                THEN fn' = [f1 EXCEPT !.attempt = fn.attempt + 1] /\ pc' = "submit"
                ELSE Raise(f1, out)
    /\ Quiet
    /\ UNCHANGED <<positionModeCache, gpm, otherCalls, lastFresh, probe>>

\* the mismatch repair: client.positionMode() asked directly, parameters
\* adjusted, then the next pass of the loop; positionModeCache is not written
Requery ==
    /\ pc = "requery"
    /\ \/ /\ fn' = [fn EXCEPT
                      !.params = repairParams(fn.call.kind, fn.params,
                                              modeOf(actualMode), fn.positionSide),
                      !.attempt = fn.attempt + 1,
                      !.requeries = fn.requeries + 1]
          /\ pc' = "submit"
          /\ lastFresh' = [mode |-> modeOf(actualMode), at |-> idx + 1]
       \/ /\ Raise(fn, "position mode query failed")
          /\ UNCHANGED lastFresh
    /\ Quiet
    /\ UNCHANGED <<positionModeCache, gpm, otherCalls, lastOrder, probe>>

\* ------------------------------------------- stop-loss / take-profit orders
\* an attachment loop that goes round once more than the code's
slTpRetryOnceMore(attempt) == attempt < MaxSlTpAttempts + 1

\* for (let attempt = 1; attempt <= 3; attempt++): another pass after a
\* failed one
slTpRetry(attempt) == attempt < MaxSlTpAttempts

\* if (slTpResult.success) { slTpSuccess = true; break; }
slTpStops(res) == res = "success"

\* the 8 seconds the function waits before the first attachment attempt
SettleDelay ==
    /\ pc = "settle"
    /\ fn' = [fn EXCEPT !.slAttempt = 1]
    /\ pc' = "sltp"
    /\ Quiet
    /\ UNCHANGED <<positionModeCache, gpm, otherCalls, lastOrder, lastFresh, probe>>

\* one pass of the attachment loop: setStopLossTakeProfit answers with
\* success, with a failure result, or throws; the entry result is returned
\* after the loop whatever happened in it
Attach ==
    /\ pc = "sltp"
    /\ \E res \in {"success", "failure", "error"} :
         /\ fn' = [fn EXCEPT !.slCalls = fn.slCalls + 1, !.slResult = res,
                            !.slAttempt = IF slTpStops(res) THEN fn.slAttempt
                                          ELSE fn.slAttempt + 1]
         /\ pc' = IF slTpStops(res) \/ ~slTpRetry(fn.slAttempt)
                  THEN "ret" ELSE "sltp"
    /\ Quiet
    /\ UNCHANGED <<positionModeCache, gpm, otherCalls, lastOrder, lastFresh, probe>>

\* --------------------------------------------------------------- behaviours
Next ==
    \/ Dispatch
    \/ DirectCall
    \/ Sync
    \/ FetchPrice
    \/ SetLeverage
    \/ FetchPositions
    \/ GpmEnter("main")
    \/ GpmSdk("main")
    \/ GpmRest("main")
    \/ Submit
    \/ Requery
    \/ SettleDelay
    \/ Attach
    \/ Return

Spec == Init /\ [][Next]_vars

\* a second, concurrent caller of getPositionMode
OtherEnter == GpmEnter("other")
OtherSdk == GpmSdk("other")
OtherRest == GpmRest("other")

NextConc ==
    \/ Next
    \/ OtherEnter
    \/ OtherSdk
    \/ OtherRest

SpecConc == Init /\ [][NextConc]_vars

\* ---------------------------------------------------- units on their own
\* the trade functions are at rest while a unit is exercised
AtRest ==
    /\ orch = "direct"
    /\ actualMode = "ONE_WAY"
    /\ idx = 0
    /\ pc = "idle"
    /\ fn = NoCall
    /\ cur = [op |-> "none", margin |-> Num(0), at |-> 0]
    /\ positionModeCache = "null"
    /\ gpm = [c \in Callers |-> GpmIdle]
    /\ otherCalls = 0
    /\ initialCash = Num(Usd(150))
    /\ remainingAvailableCash = initialCash
    /\ committed = Num(0)
    /\ recorded = [i \in 1..BatchLen |-> 0]
    /\ results = [i \in 1..BatchLen |-> "none"]
    /\ lastOrder = NoOrder
    /\ lastFresh = [mode |-> "none", at |-> 0]

StaysAtRest ==
    UNCHANGED <<orch, actualMode, idx, pc, fn, cur, positionModeCache, gpm,
                otherCalls, remainingAvailableCash, initialCash, committed,
                recorded, results, lastOrder, lastFresh>>

\* ---- fetchPositions: the candidate endpoints tried in turn
\* the failures handleRequestError tells apart; "timeout" is the abort of
\* the one AbortSignal.timeout(this.timeout) all the requests share
FailureKinds == {"429", "401", "Empty response", "Invalid JSON", "timeout"}

\* what fetchFromSingleUrl can end with: once the shared signal has fired,
\* fetch rejects at once, whatever the endpoint
FetchAnswers(aborted) ==
    IF aborted THEN {"timeout"} ELSE {"ok"} \cup FailureKinds

\* a loop that passes over the endpoint after a failed one
skipsOne(i) == i + 2

\* for (let i = 0; i < this.baseUrls.length; i++): the endpoint tried next
rotates(i) == i + 1

\* await ensureTimeSync(), then the signed URL and the fetch options
EnsureTimeSync ==
    /\ probe.unit = "fetch" /\ probe.pc = "sync"
    /\ probe' = [probe EXCEPT !.pc = "loop", !.next = 1]
    /\ StaysAtRest

\* one pass of the loop: fetchFromSingleUrl, return on success, else
\* lastError = error and the next endpoint; the throw after the last one
FetchFromSingleUrl ==
    /\ probe.unit = "fetch" /\ probe.pc = "loop"
    /\ \E ans \in FetchAnswers(probe.aborted) :
         LET i  == probe.next
             p1 == [probe EXCEPT
                      !.contacted = IF probe.aborted THEN @ ELSE Append(@, i)]
         IN  IF ans = "ok"
             THEN probe' = [p1 EXCEPT !.pc = "returned", !.from = i]
             ELSE LET p2 == [p1 EXCEPT !.failed = @ \cup {i},
                                       !.lastError = [kind |-> ans, at |-> i],
                                       !.aborted = @ \/ ans = "timeout",
                                       !.next = rotates(i)]
                  IN  IF rotates(i) <= NumBaseUrls
                      THEN probe' = p2
                      ELSE probe' = [p2 EXCEPT !.pc = "thrown", !.error = ans]
    /\ StaysAtRest

\* ---- the small-amount step of buy() applied to an amount below minAmount
SmallAmounts == {0, 4, 25, 50}
SmallLeverages == {1, 5, 10, 30}
SmallPrices == {500000, 1200000}

HandleSmallAmount ==
    /\ probe.unit = "small" /\ probe.pc = "input"
    /\ probe' = [probe EXCEPT
                   !.pc = "done",
                   !.res = smallOrder(probe.amount, probe.leverage, probe.symbol,
                                      binanceSymbol(probe.symbol), probe.price,
                                      buyMinAmount(binanceSymbol(probe.symbol)))]
    /\ StaysAtRest

\* ---- the minimum-notional step of buy() applied to a price
\* multiples m, below 100 units, for which the double m/10^d + 10^-d is
\* not the double (m+1)/10^d: 0.06 + 0.01 is 0.06999999999999999
InexactIncrements(d) ==
    CASE d = 2 -> {5, 6, 9, 14, 17, 20, 23, 28, 34, 40, 46, 56, 68, 81, 93}
      [] d = 3 -> {8, 9, 12, 13, 17, 21, 25, 29, 35, 42, 50, 58, 70, 85}
      [] OTHER -> {}

\* adjustPrecision(config.minNotional / currentPrice), in minimal units
requiredUnits(config, currentPrice) ==
    floorOfProduct(
        Usd(config.minNotional) \div (currentPrice * UnitOf(config.quantity)),
        Usd(config.minNotional) % (currentPrice * UnitOf(config.quantity)),
        config.quantity)

\* whether the amount smartAdjustOrderForMinNotional returns is the decimal
\* multiple the model counts: adjustedRequiredAmount + minIncrement is a
\* sum of doubles, and nothing quantizes it afterwards
escalatedExactly(amount, symbol, currentPrice) ==
    LET config == buyConfig(binanceSymbol(symbol))
        m      == requiredUnits(config, currentPrice)
    IN  ( /\ amount * currentPrice < Usd(config.minNotional)
          /\ m * UnitOf(config.quantity) * currentPrice < Usd(config.minNotional) )
        => m \notin InexactIncrements(config.quantity)

\* prices per symbol, in 0.1 USDT
NotionalPrices(symbol) ==
    CASE symbol = "BTC/USDT"  -> {400000, 500000, 100001, 55556}
      [] symbol = "ETH/USDT"  -> {30000, 20000, 15000}
      [] symbol = "BNB/USDT"  -> {5000, 6000}
      [] symbol = "SOL/USDT"  -> {1500}
      [] symbol = "ADA/USDT"  -> {7}
      [] symbol = "DOGE/USDT" -> {2}

NotionalSymbols ==
    {"BTC/USDT", "ETH/USDT", "BNB/USDT", "SOL/USDT", "ADA/USDT", "DOGE/USDT"}

\* buy(): lines 264-292 for an amount whose notional is below the minimum
MinNotionalEscalation ==
    /\ probe.unit = "notional" /\ probe.pc = "input"
    /\ LET bs == binanceSymbol(probe.symbol)
           r  == revalidated(
                     smartAdjustOrderForMinNotional(probe.amount, probe.symbol,
                                                    probe.price),
                     probe.leverage, probe.symbol, bs, probe.price,
                     buyMinAmount(bs))
       IN  probe' = [probe EXCEPT
                       !.pc = "done", !.res = r,
                       !.exact = escalatedExactly(probe.amount, probe.symbol,
                                                  probe.price)]
    /\ StaysAtRest

\* ---- a long open followed by a 100% close of what it opened
\* requested amounts, in minimal units of the long-open rule
GridMultiples == {1, 21, 29}

\* buy(): the quantity the long-open path submits for the requested amount
LongOpenQuantity ==
    /\ probe.unit = "grid" /\ probe.pc = "input"
    /\ probe' = [probe EXCEPT
                   !.pc = "opened",
                   !.res = adjustOrder(probe.amount, probe.symbol, probe.price,
                                       probe.leverage)]
    /\ StaysAtRest

\* sell() with percentage 100 on a position of the size just opened
FullClose ==
    /\ probe.unit = "grid" /\ probe.pc = "opened"
    /\ probe.res.status = "ok"
    /\ LET positionSize == probe.res.amount
           sellAmount   == positionSize * (100 \div 100)
           r == closeAdjust(smartAdjustSellAmount(sellAmount, probe.symbol,
                                                  positionSize),
                            probe.symbol, positionSize)
       IN  probe' = [probe EXCEPT
                       !.pc = "done",
                       !.closed = r.amount,
                       !.error = r.error]
    /\ StaysAtRest

InitUnits ==
    /\ AtRest
    /\ \/ probe = [NoProbe EXCEPT !.unit = "fetch", !.pc = "sync"]
       \/ \E a \in SmallAmounts, l \in SmallLeverages, p \in SmallPrices :
             probe = [NoProbe EXCEPT !.unit = "small", !.pc = "input",
                                     !.symbol = "BTC/USDT", !.amount = a,
                                     !.leverage = l, !.price = p]
       \/ \E s \in NotionalSymbols :
            \E p \in NotionalPrices(s),
               a \in {0, UnitOf(buyConfig(binanceSymbol(s)).quantity)} :
             /\ ~checkMinNotional(a, binanceSymbol(s), p)
             /\ probe = [NoProbe EXCEPT !.unit = "notional", !.pc = "input",
                                        !.symbol = s, !.amount = a,
                                        !.leverage = 10, !.price = p]
       \/ \E s \in NotionalSymbols :
            \E p \in NotionalPrices(s), m \in GridMultiples :
             probe = [NoProbe EXCEPT
                        !.unit = "grid", !.pc = "input", !.symbol = s,
                        !.amount = m * UnitOf(buyConfig(binanceSymbol(s)).quantity),
                        !.leverage = 10, !.price = p]

NextUnits ==
    \/ EnsureTimeSync
    \/ FetchFromSingleUrl
    \/ HandleSmallAmount
    \/ MinNotionalEscalation
    \/ LongOpenQuantity
    \/ FullClose

SpecUnits == InitUnits /\ [][NextUnits]_vars

\* ------------------------------------------------------------------ claims
\* C1: every order that the long-open, short-open or close path submits, on
\* any attempt, has quantity x effective price >= the symbol's minNotional.
C1_MinNotionalEveryOrder ==
    lastOrder.kind # "none" =>
        lastOrder.qty * lastOrder.price >= Usd(sellConfig(lastOrder.symbol).minNotional)

\* C2: the quantity submitted in a close order, from an explicit amount or
\* from a percentage, is at most the contracts held for the symbol.
C2_CloseWithinHeld ==
    lastOrder.kind = "close" => lastOrder.qty <= fn.held.size

C4_NeverThrowsLastError ==
    /\ pc # "thrown"
    /\ (pc = "ret" /\ lastOrder.kind # "none" /\ lastOrder.outcome # "ok") =>
           (~fn.success /\ fn.error = lastOrder.outcome)

\* C5: a decision whose order failed on all 3 attempts is recorded by the
\* orchestrator, and the decisions after it are still processed in order.
C5_FailureRecordedRunContinues ==
    orch # "direct" =>
        \A i \in 1..BatchLen :
            results[i] = "fail3" => (i <= idx /\ recorded[i] >= 1)

C7_OneQueryInFlight ==
    Cardinality({c \in Callers : gpm[c].pc \in {"sdk", "rest"}}) <= 1

\* C8: after a mismatch repair every later getPositionMode call returns the
\* freshly resolved mode.
C8_FreshModeAfterMismatch ==
    (lastFresh.mode # "none" /\ idx + 1 > lastFresh.at /\ gpm["main"].ret # "none")
        => gpm["main"].ret = lastFresh.mode

\* C9: at every call site the attempt that follows a position-side mismatch
\* carries parameters rebuilt from the freshly resolved mode.
C9_MismatchRepairedOnNextAttempt ==
    (lastOrder.attempt >= 2 /\ lastOrder.after = Mismatch)
        => paramsFit(lastOrder.params, modeOf(actualMode))

\* C10: on every path the first quantization of a positive amount is > 0.
C10_QuantizedPositive ==
    fn.quantized # -1 => fn.quantized > 0

\* the quantization function of the path of the call in flight
requantized(f) ==
    IF f.call.kind = "buy"
    THEN adjustPrecisionBuy(f.quantized, binanceSymbol(f.call.symbol))
    ELSE adjustPrecisionSell(f.quantized, binanceSymbol(f.call.symbol))

\* C11: quantization is idempotent: quantizing the amount the first
\* quantization returned gives that amount again.
C11_QuantizationIdempotent ==
    fn.quantized # -1 => requantized(fn) = fn.quantized

\* quantity decimals of the rule the path of the call in flight applies
ruleDecimals(f) ==
    IF f.call.kind = "buy" THEN buyConfig(binanceSymbol(f.call.symbol)).quantity
    ELSE sellConfig(binanceSymbol(f.call.symbol)).quantity

\* C12: a quantized amount is the largest multiple of the minimal unit that
\* is <= the raw amount, or one minimal unit when that multiple is 0.
C12_LargestMultipleNotAbove ==
    fn.quantized # -1 =>
        LET u        == UnitOf(ruleDecimals(fn))
            largest  == (fn.raw \div u) * u
        IN  /\ fn.quantized % u = 0
            /\ \/ fn.quantized = largest
               \/ largest = 0 /\ fn.raw > 0 /\ fn.quantized = u

\* a long open of a listed symbol whose requested amount is valued below the
\* minimum notional, past its amount adjustment
belowMinNotional(f) ==
    /\ f.call.kind = "buy"
    /\ f.quantized # -1
    /\ binanceSymbol(f.call.symbol) \in ListedSymbols
    /\ f.raw * f.currentPrice < Usd(MinNotionalOf[binanceSymbol(f.call.symbol)])

C14_ClosesExactlyHeld ==
    ( /\ lastOrder.kind = "close"
      /\ ~fn.call.hasAmount
      /\ fn.call.percentage = 100
      /\ fn.positionSize > 0
      /\ fn.positionSize < sellMinAmount(binanceSymbol(fn.call.symbol)) )
    => lastOrder.qty = fn.positionSize

\* C15: a buy whose required margin exceeds the remaining cash is rejected
\* for insufficient margin: the trade function is not entered for it, no
\* order is submitted and the ledger is unchanged. With 150 of cash and two
\* buys requiring 100 each the first is committed, leaving 50, and the second
\* is rejected.
C15_InsufficientMarginRejected ==
    /\ [](( /\ idx = 2
            /\ initialCash = Num(Usd(150))
            /\ results[2] = "insufficient" )
          => (results[1] = "ok" /\ remainingAvailableCash = Num(Usd(50))))
    /\ [][ /\ (idx' = idx + 1 /\ results'[idx + 1] = "insufficient") =>
                /\ remainingAvailableCash' = remainingAvailableCash
                /\ lastOrder' = lastOrder /\ lastOrder = NoOrder
                /\ fn' = NoCall /\ pc' = "idle"
           /\ (pc = "idle" /\ pc' # "idle" /\ cur'.op = "Buy") =>
                ~Gt(cur'.margin, remainingAvailableCash)
         ]_vars

C15_Witness ==
    /\ idx = 2
    /\ initialCash = Num(Usd(150))
    /\ results[1] = "ok" /\ results[2] = "insufficient"
    /\ committed = Num(Usd(100))
    /\ remainingAvailableCash = Num(Usd(50))

\* C16: for each intent newOrder is called at most 3 times, and once one
\* call has succeeded no further call is made for that intent.
C16_AtMostThreePlacements ==
    /\ [](lastOrder.placed <= MaxAttempts /\ lastOrder.attempt <= MaxAttempts)
    /\ [][ lastOrder.outcome = "ok" =>
              (lastOrder' = lastOrder \/ lastOrder' = NoOrder) ]_vars

C16_Witness ==
    /\ lastOrder.placed = MaxAttempts
    /\ lastOrder.outcome = "ok"
    /\ pc = "ret"

\* C17: the decisions of a batch are executed one at a time in input order:
\* while a trade function is in flight it belongs to the first decision
\* without a result, every earlier decision has its result and its ledger
\* update, no later one has been touched, and a decision is taken up only
\* when no trade function is in flight.
C17_OneIntentAtATime ==
    /\ [](/\ pc # "idle" => cur.at = idx + 1
          /\ pc = "idle" => (cur.at = 0 /\ fn = NoCall /\ lastOrder = NoOrder)
          /\ \A i \in 1..BatchLen : (i <= idx) <=> (results[i] # "none")
          /\ orch # "direct" => remainingAvailableCash = Sub(initialCash, committed))
    /\ [][ idx' # idx =>
             /\ idx' = idx + 1
             /\ pc' = "idle"
             /\ \A i \in 1..BatchLen : i # idx + 1 => results'[i] = results[i] ]_vars

C17_Witness ==
    /\ idx = 1
    /\ results[1] = "ok"
    /\ cur.at = 2
    /\ pc = "submit"
    /\ lastOrder.placed >= 1

\* an intent with a malformed symbol, a non-positive amount, a leverage
\* outside 1..30 or a close percentage outside (0, 100]
invalidIntent(c) ==
    \/ ~hasSlash(c.symbol)
    \/ c.kind \in {"buy", "short"} /\ c.amount <= 0
    \/ c.kind = "buy" /\ (c.leverage < MinLeverage \/ c.leverage > MAX_SAFE_LEVERAGE)
    \/ c.kind = "short" /\ c.leverage # 0
         /\ (c.leverage < MinLeverage \/ c.leverage > MAX_SAFE_LEVERAGE)
    \/ c.kind = "close" /\ (c.percentage <= 0 \/ c.percentage > 100)

\* C18: an invalid intent is rejected with a failure result before any
\* exchange call (time sync, price, leverage, position or order) is made
\* for it.
C18_RejectedBeforeAnyExchangeCall ==
    (pc # "idle" /\ invalidIntent(fn.call)) =>
        /\ ~fn.touched
        /\ pc = "ret" /\ ~fn.success /\ fn.error # "none"
        /\ lastOrder = NoOrder

\* the quantity the open order carries when the leverage-set call succeeds
quantityOf(f) ==
    IF f.call.kind = "buy"
    THEN adjustOrder(f.call.amount, f.call.symbol, f.currentPrice, f.call.leverage).amount
    ELSE shortAdjust(f.call.amount, f.call.symbol).amount

\* C20: when the leverage-set call fails the open order is still submitted,
\* with the quantity it would have had, and the result is that of the order
\* submission: the function returns without an order only where the amount
\* itself is refused.
C20_LeverageFailureNotFatal ==
    fn.levFailed =>
        /\ pc # "thrown"
        /\ (pc = "ret" /\ lastOrder.placed = 0) =>
               (fn.call.kind = "short"
                  /\ shortAdjust(fn.call.amount, fn.call.symbol).status # "ok")
        /\ lastOrder.attempt = 1 => lastOrder.qty = quantityOf(fn)
        /\ (pc = "ret" /\ lastOrder.placed > 0) =>
               (fn.success <=> lastOrder.outcome = "ok")

C20_Witness ==
    /\ fn.levFailed
    /\ fn.call.kind = "buy"
    /\ pc = "ret"
    /\ lastOrder.outcome = "ok" /\ lastOrder.qty = quantityOf(fn)
    /\ fn.success

C21_NoPositionNoOrder ==
    (fn.call.kind = "close" /\ fn.held.size = 0) =>
        /\ lastOrder = NoOrder
        /\ pc = "ret" => ~fn.success

\* C24: the margin the ledger admitted for a long open is that of the
\* quantity actually submitted: quantity x price / leverage of the order
\* never exceeds the admitted margin.
C24_AdmittedMarginCoversOrder ==
    ( /\ cur.op = "Buy"
      /\ lastOrder.kind = "buy"
      /\ ~cur.margin.nan )
    => (lastOrder.qty * lastOrder.price) \div fn.effLeverage <= cur.margin.v

\* C25: a short open is checked by the margin ledger before its order, and
\* when it succeeds the remaining cash is decremented by its margin.
C25_ShortOpenUsesLedger ==
    [][ ( /\ cur.op = "Sell"
          /\ pc = "ret" /\ pc' = "idle"
          /\ fn.success
          /\ ~remainingAvailableCash.nan )
        => remainingAvailableCash' =
               Sub(remainingAvailableCash,
                   Num((lastOrder.qty * lastOrder.price) \div fn.call.leverage)) ]_vars

\* the mode the parameters of the latest order were built from: the one
\* getPositionMode returned, or the one the mismatch repair obtained
builtFrom(f, order) ==
    IF f.requeries > 0 /\ order.attempt > 1 THEN lastFresh.mode ELSE f.mode

\* the held side as the order parameters spell it
heldSide(f) == IF f.held.side = "long" THEN "LONG" ELSE "SHORT"

\* C26: on every submission attempt the order parameters match the mode
\* they were built from: in dual-side mode positionSide is the intended
\* direction (LONG for a long open, SHORT for a short open, the held side
\* for a close) without reduceOnly; in one-way mode there is no
\* positionSide, and reduceOnly is set exactly for a close.
C26_ParamsMatchMode ==
    lastOrder.placed > 0 =>
        IF builtFrom(fn, lastOrder) = "DUAL_SIDE"
        THEN /\ ~lastOrder.params.reduceOnly
             /\ lastOrder.params.positionSide =
                    (CASE lastOrder.kind = "buy" -> "LONG"
                       [] lastOrder.kind = "short" -> "SHORT"
                       [] OTHER -> heldSide(fn))
        ELSE /\ lastOrder.params.positionSide = "none"
             /\ lastOrder.params.reduceOnly = (lastOrder.kind = "close")

\* C30: a close order carries the side opposite to the held position, SELL
\* for a long and BUY for a short, whether the amount was given or derived
\* from a percentage.
C30_CloseSideOpposite ==
    (lastOrder.kind = "close" /\ fn.held.size > 0) =>
        lastOrder.side = (IF fn.held.side = "long" THEN "SELL" ELSE "BUY")

\* C27: when a submission attempt other than the last fails with a
\* precision violation, the next attempt's quantity is the previous
\* quantity plus exactly one minimal unit of the symbol.
C27_PrecisionRetryAddsOneUnit ==
    [][ ( /\ lastOrder.outcome = "Precision"
          /\ lastOrder'.placed = lastOrder.placed + 1 )
        => lastOrder'.qty = lastOrder.qty + UnitOf(ruleDecimals(fn)) ]_vars

\* C23: idempotency is not guaranteed. An attempt the client saw time out is
\* followed by a resubmission of the same order whether or not the exchange
\* had created it, so one intent can leave two orders on the exchange.
C23_TimeoutRetriedBlindly ==
    /\ [](lastOrder.accepted <= lastOrder.placed)
    /\ [][ ( /\ lastOrder'.placed = lastOrder.placed + 1
             /\ lastOrder'.outcome = "timeout"
             /\ lastOrder'.attempt < MaxAttempts )
           => /\ pc' = "submit"
              /\ fn'.attempt = fn.attempt + 1
              /\ fn'.qty = fn.qty
              /\ fn'.params = fn.params ]_vars

\* one intent, two orders created by the exchange
C23_Witness ==
    /\ lastOrder.accepted = 2
    /\ lastOrder.outcome = "ok"
    /\ lastOrder.after = "timeout"
    /\ fn.success

C29_SmallestSufficientMultiple ==
    (probe.unit = "notional" /\ probe.pc = "done") =>
        LET config == buyConfig(binanceSymbol(probe.symbol))
            unit   == UnitOf(config.quantity)
        IN  /\ probe.res.status = "ok"
            /\ probe.res.amount * probe.price >= Usd(config.minNotional)
            /\ (probe.res.amount - unit) * probe.price < Usd(config.minNotional)
            /\ probe.res.amount % unit = 0
            /\ probe.exact

\* C31: in fetchPositions a timeout against one endpoint is an ordinary
\* failure: the endpoint after it is genuinely contacted, so every endpoint
\* counted as failed is one the fetch has actually contacted.
C31_TimeoutRotatesToLiveEndpoint ==
    /\ [](probe.unit = "fetch" =>
             \A i \in probe.failed : i <= Len(probe.contacted))
    /\ [][ ( /\ probe.unit = "fetch"
             /\ probe.pc = "loop"
             /\ probe.lastError.kind = "timeout"
             /\ probe' # probe )
           => probe'.contacted = Append(probe.contacted, probe.next) ]_vars

\* C32: in the close and short-open paths a failure is returned only after
\* 3 failed submissions; a failed first attempt is followed by a second
\* one, also when the mode query of the mismatch repair fails.
C32_FailureOnlyAfterThreeAttempts ==
    [][ ( /\ fn.call.kind \in {"close", "short"}
          /\ lastOrder.placed >= 1
          /\ pc \notin {"ret", "thrown"}
          /\ pc' \in {"ret", "thrown"}
          /\ ~fn'.success )
        => lastOrder'.placed = MaxAttempts ]_vars

\* C33: each intent of a batch produces exactly one trading record,
\* however it ended: after the decisions processed so far the records
\* number exactly as many as the decisions.
C33_OneRecordPerIntent ==
    (orch # "direct" /\ pc = "idle") =>
        \A i \in 1..idx : recorded[i] = 1

\* C34: the margin computed for a buy intent the orchestrator admits is a
\* positive, defined number, and remainingCash stays a defined number.
C34_AdmittedMarginPositive ==
    /\ ~remainingAvailableCash.nan
    /\ (orch # "direct" /\ cur.op = "Buy" /\ pc # "idle") =>
           (~cur.margin.nan /\ cur.margin.v > 0)

C35_FullCloseOnOpenGrid ==
    (probe.unit = "grid" /\ probe.pc = "done") =>
        probe.closed = probe.res.amount

\* C36: for every long open that reaches the leverage call and the order
\* submission with a positive price, the leverage set is the requested one
\* and the adjusted amount is at least the minimal unit: the small-amount
\* escalation is never taken.
C36_LeverageAsRequested ==
    ( /\ fn.call.kind = "buy"
      /\ fn.currentPrice > 0
      /\ (pc = "leverage" \/ lastOrder.kind = "buy") )
    => ( /\ fn.effLeverage = fn.call.leverage
         /\ fn.qty >= buyMinAmount(binanceSymbol(fn.call.symbol)) )

\* C36 witness: a request of less than one unit, raised by the min-notional
\* adjustment and submitted at the requested leverage.
C36_Witness ==
    /\ lastOrder.kind = "buy"
    /\ lastOrder.outcome = "ok"
    /\ fn.currentPrice > 0
    /\ fn.quantized = 0
    /\ fn.qty >= buyMinAmount(binanceSymbol(fn.call.symbol))
    /\ fn.effLeverage = fn.call.leverage

\* C38: for a symbol absent from the rule table the long-open path applies
\* the default rule at every step: an under-sized order for it is adjusted
\* and goes on to submission exactly as for BTC/USDT, a listed symbol that
\* has this rule (3 quantity decimals, minNotional 100).
C38_DefaultRuleEveryStep ==
    ( /\ fn.call.kind = "buy"
      /\ binanceSymbol(fn.call.symbol) \notin ListedSymbols
      /\ fn.currentPrice > 0
      /\ ~checkMinNotional(fn.quantized, binanceSymbol(fn.call.symbol),
                           fn.currentPrice) )
    => LET listed == adjustOrder(fn.call.amount, "BTC/USDT", fn.currentPrice,
                                 fn.call.leverage)
       IN  /\ fn.qty = listed.amount
           /\ fn.effLeverage = listed.leverage
           /\ listed.status = "ok" => fn.error # "TypeError"

====
